---- MODULE Spec2Model ----
(***************************************************************************)
(* ai-changelog-action: a CI script that lists recent commits, asks a      *)
(* language model for a changelog entry, merges the entry into             *)
(* CHANGELOG.md and opens a pull request.                                  *)
(*                                                                         *)
(* Texts are sequences of one-character strings, so that trim, startsWith, *)
(* includes, indexOf, substring, replace and the date-range pattern are    *)
(* computed character by character as the JavaScript does.                 *)
(***************************************************************************)
EXTENDS Integers, Sequences, FiniteSets, TLC

(***************************************************************************)
(* Bounds of the model.                                                    *)
(***************************************************************************)
MaxRawLen == 5      \* characters of a model response after its prefix
MaxCommits == 2     \* commits in a batch
MaxPieces == 2      \* pieces of a changelog entry offered to the merger
MaxMerges == 2      \* successive updateChangelogFile calls on one document

(***************************************************************************)
(* State.  The machines of the module: the pipeline run() against the      *)
(* repository, alone or as two concurrent runs, the Merger on its own, and *)
(* the Summarizer on its own.                                              *)
(***************************************************************************)
\* the pipeline
VARIABLES
  pc,              \* per run: the await it is suspended at, "start" or "done"
  commits,         \* per run: what getRecentCommits returned
  changelogEntry,  \* per run: formatChangelogEntry's result
  existingContent, \* per run: CHANGELOG.md as read from the target branch, or ""
  updatedContent,  \* per run: updateChangelogFile's content
  hasChanges,      \* per run: updateChangelogFile's hasChanges
  branchName,      \* per run: changelog/update-<YYYYMMDD>
  baseSha,         \* per run: baseRef.data.object.sha inside createBranch
  branchSha,       \* per run: what createBranch returned
  sha,             \* per run: the revision marker inside updateOrCreateFile
  calls,           \* per run: the functions run() has called, in order
  requests,        \* per run: the API exchanges made, [fn, api, status], in order
  failures,        \* per run: number of core.setFailed calls
  outputs,         \* per run: the outputs set with core.setOutput
  targetFile,      \* CHANGELOG.md on the target branch
  branches,        \* the refs/heads/changelog/... branches of the repository
  pulls,           \* the repository's open pull requests
  commitLog,       \* the target branch's recent commits, newest first
  repoAtRead       \* per run: branches and pulls as they were when it read CHANGELOG.md

runLocal == <<pc, commits, changelogEntry, existingContent, updatedContent,
              hasChanges, branchName, baseSha, branchSha, sha, calls, requests,
              failures, outputs>>
remote == <<targetFile, branches, pulls, commitLog>>
runVars == <<runLocal, remote, repoAtRead>>

\* the Merger on its own
VARIABLES
  doc,          \* the ChangelogDocument: content returned by the last call
  merges,       \* number of updateChangelogFile calls made
  lastEntry,       \* the last call's newEntry
  lastExisting,    \* the last call's existingContent
  lastHasChanges   \* the last call's hasChanges

mergeVars == <<doc, merges, lastEntry, lastExisting, lastHasChanges>>

\* the Summarizer on its own
VARIABLES
  sumStage,     \* "idle", "ranged", "threw" or "formatted"
  batch,        \* the raw commits handed to getCommitsForChangelog
  sumRange,     \* dateRange computed by generateChangelogWithAI
  modelText,    \* the text handed to formatChangelogEntry
  formatted     \* what formatChangelogEntry returned

sumVars == <<sumStage, batch, sumRange, modelText, formatted>>

vars == <<mergeVars, sumVars, runVars>>
otherThanMerge == <<sumVars, runVars>>
otherThanSum == <<mergeVars, runVars>>

(***************************************************************************)
(* JavaScript string primitives.                                           *)
(***************************************************************************)
NL == "\n"
SP == " "
WhiteSpace == {SP, NL, "\t"}
Digits == {"0", "1", "2", "3", "4", "5", "6", "7", "8", "9"}

Min(a, b) == IF a < b THEN a ELSE b

\* s.substring(k): the text from 0-based position k on
Substring(s, k) == SubSeq(s, Min(k, Len(s)) + 1, Len(s))

\* s.startsWith(t)
StartsWith(s, t) == Len(t) <= Len(s) /\ \A i \in 1..Len(t) : s[i] = t[i]

\* t occurs in s at 0-based position k
OccursAt(s, t, k) == k + Len(t) <= Len(s) /\ \A i \in 1..Len(t) : s[k + i] = t[i]

\* s.includes(t)
Includes(s, t) == \E k \in 0..Len(s) : OccursAt(s, t, k)

\* s.indexOf(t): 0-based position of the first occurrence, -1 when there is none
IndexOf(s, t) ==
  IF Includes(s, t)
  THEN CHOOSE k \in 0..Len(s) :
         OccursAt(s, t, k) /\ \A j \in 0..(k - 1) : ~OccursAt(s, t, j)
  ELSE -1

\* s.trim()
Trim(s) ==
  LET keep == {i \in 1..Len(s) : s[i] \notin WhiteSpace}
  IN IF keep = {} THEN <<>>
     ELSE LET lo == CHOOSE i \in keep : \A j \in keep : i <= j
              hi == CHOOSE i \in keep : \A j \in keep : j <= i
          IN SubSeq(s, lo, hi)

\* s.replace(/\n\n\n/g, "\n\n"): every third newline of a run is dropped
CollapseTriples(s) ==
  LET run(i) == CHOOSE n \in 0..i :
                  /\ \A k \in (i - n + 1)..i : s[k] = NL
                  /\ (n = i \/ s[i - n] # NL)
      kept == SelectSeq([i \in 1..Len(s) |-> i],
                        LAMBDA i : ~(run(i) > 0 /\ run(i) % 3 = 0))
  IN [j \in 1..Len(kept) |-> s[kept[j]]]

\* s.replace(/\n{3,}/g, "\n\n"): a newline survives unless two newlines stand
\* directly before it, which keeps the first two of every run and drops the rest
CollapseNewlines(s) ==
  LET drop(i) == s[i] = NL /\ i >= 3 /\ s[i - 1] = NL /\ s[i - 2] = NL
      kept == SelectSeq([i \in 1..Len(s) |-> i], LAMBDA i : ~drop(i))
  IN [j \in 1..Len(kept) |-> s[kept[j]]]

(***************************************************************************)
(* Dates.  A commit date is a calendar day [y, m, d] in the time zone of   *)
(* the runner; NoDate is an absent (falsy) date field.                     *)
(***************************************************************************)
NoDate == [y |-> 0, m |-> 0, d |-> 0]
DayA == [y |-> 2023, m |-> 12, d |-> 31]
DayB == [y |-> 2024, m |-> 1, d |-> 1]
DayC == [y |-> 2024, m |-> 1, d |-> 7]
Dates == {DayA, DayB, DayC}

DigitChar(n) == <<"0", "1", "2", "3", "4", "5", "6", "7", "8", "9">>[n + 1]

RECURSIVE Decimal(_)
Decimal(n) == IF n < 10 THEN <<DigitChar(n)>>
              ELSE Decimal(n \div 10) \o <<DigitChar(n % 10)>>

Pad2(n) == IF n < 10 THEN <<"0", DigitChar(n)>> ELSE Decimal(n)

\* date.toLocaleDateString("pl-PL", {day: "2-digit", month: "2-digit", year: "numeric"})
toLocaleDateString(date) ==
  Pad2(date.d) \o <<".">> \o Pad2(date.m) \o <<".">> \o Decimal(date.y)

(***************************************************************************)
(* sumarize-changelog.js                                                   *)
(***************************************************************************)
\* getCommitsForChangelog: the projection of a raw commit of the hosting API;
\* date is author.date || committer.date.  (sha, message and author only feed the
\* prompt, whose answer is the model's free choice, and are left out.)
getCommitsForChangelog(rawCommits) ==
  [i \in 1..Len(rawCommits) |->
     [date |-> IF rawCommits[i].author # NoDate THEN rawCommits[i].author
                                                ELSE rawCommits[i].committer]]

\* generateChangelogWithAI, "Get date range": the last element's date, then the
\* first element's date
dateRange(formattedCommits) ==
  toLocaleDateString(formattedCommits[Len(formattedCommits)].date) \o <<SP, "-", SP>>
    \o toLocaleDateString(formattedCommits[1].date)

HeadingMarker == <<"#", "#", "#">>

\* formatChangelogEntry(aiResponse, repoName)
formatChangelogEntry(aiResponse, repoName) ==
  LET trimmed == Trim(aiResponse)
      marked == IF ~StartsWith(trimmed, HeadingMarker)
                THEN HeadingMarker \o <<SP>> \o trimmed
                ELSE trimmed
  IN CollapseNewlines(marked)

\* \d{2}\.\d{2}\.\d{4} at 0-based position k
IsDateAt(s, k) ==
  /\ k + 10 <= Len(s)
  /\ \A i \in {1, 2, 4, 5, 7, 8, 9, 10} : s[k + i] \in Digits
  /\ s[k + 3] = "." /\ s[k + 6] = "."

\* the position after the run of white space that starts at position k; the
\* greedy \s+ and \s* always take the whole run, since what follows them in the
\* pattern (a digit, a dash) is never white space
SkipWs(s, k) ==
  CHOOSE j \in k..Len(s) :
    /\ \A i \in (k + 1)..j : s[i] \in WhiteSpace
    /\ (j = Len(s) \/ s[j + 1] \notin WhiteSpace)

\* the span <<from, to>> (0-based, to exclusive) of the capture group when
\* /###\s+(\d{2}\.\d{2}\.\d{4}\s*-\s*\d{2}\.\d{2}\.\d{4})/ matches at
\* position k, <<>> when it does not
CaptureAt(s, k) ==
  IF ~OccursAt(s, HeadingMarker, k) THEN <<>>
  ELSE LET b == SkipWs(s, k + 3)
       IN IF b = k + 3 \/ ~IsDateAt(s, b) THEN <<>>
          ELSE LET c == SkipWs(s, b + 10)
               IN IF c >= Len(s) \/ s[c + 1] # "-" THEN <<>>
                  ELSE LET e == SkipWs(s, c + 1)
                       IN IF IsDateAt(s, e) THEN <<b, e + 10>> ELSE <<>>

\* newEntry.match(/###\s+(...)/): <<>> for null, else the one-element list of the
\* capture group of the leftmost match, so that dateRangeMatch[1] is the group
DateRangeMatch(s) ==
  LET hits == {k \in 0..Len(s) : CaptureAt(s, k) # <<>>}
  IN IF hits = {} THEN <<>>
     ELSE LET k == CHOOSE h \in hits : \A g \in hits : h <= g
              span == CaptureAt(s, k)
          IN <<SubSeq(s, span[1] + 1, span[2])>>

\* the header line of the document, "## <repoName> - Changelog\n\n"
Header(repoName) ==
  <<"#", "#", SP>> \o repoName
    \o <<SP, "-", SP, "C", "h", "a", "n", "g", "e", "l", "o", "g", NL, NL>>

\* "Check if the entry already exists (simple check by date range)"
entryAlreadyExists_WholeEntry(newEntry, existing) ==
  Includes(existing, newEntry)

entryAlreadyExists(newEntry, existing) ==
  LET dateRangeMatch == DateRangeMatch(newEntry)
  IN dateRangeMatch # <<>> /\ Includes(existing, dateRangeMatch[1])

\* "Create new file with header": the document is blank or has no header line
createNewFile_BlankOnly(existing, header) ==
  Trim(existing) = <<>>

createNewFile(existing, header) ==
  Trim(existing) = <<>> \/ ~Includes(existing, Trim(header))

\* afterHeader: what follows the header at headerIndex
afterHeader_FromHeader(existing, header, headerIndex) ==
  Substring(existing, headerIndex)

afterHeader(existing, header, headerIndex) ==
  Substring(existing, headerIndex + Len(header))

\* updateChangelogFile(newEntry, repoName, existingContent)
updateChangelogFile(newEntry, repoName, existing) ==
  LET header == Header(repoName)
  IN IF entryAlreadyExists(newEntry, existing)
     THEN [content |-> existing, hasChanges |-> FALSE]
     ELSE IF createNewFile(existing, header)
     THEN [content |-> header \o newEntry, hasChanges |-> TRUE]
     ELSE LET headerIndex == IndexOf(existing, header)
          IN IF headerIndex # -1
             THEN [content |-> header \o newEntry \o <<NL, NL>>
                                 \o afterHeader(existing, header, headerIndex),
                   hasChanges |-> TRUE]
             ELSE [content |-> header \o newEntry \o <<NL, NL>> \o existing,
                   hasChanges |-> TRUE]

(***************************************************************************)
(* The Merger on its own: successive updateChangelogFile calls, each on    *)
(* the content the previous call returned.                                 *)
(***************************************************************************)
\* the repository name, GITHUB_REPOSITORY's second part
Repo == <<"R">>

RangeBC == toLocaleDateString(DayB) \o <<SP, "-", SP>> \o toLocaleDateString(DayC)
RangeAB == toLocaleDateString(DayA) \o <<SP, "-", SP>> \o toLocaleDateString(DayB)
Bullet == <<NL, "-", SP, "x">>

\* what a model response is made of: a date-range heading, a bullet line, free text
Pieces == {HeadingMarker \o <<SP>> \o RangeBC, Bullet, <<"n">>}

RECURSIVE PieceTexts(_)
PieceTexts(n) ==
  IF n <= 1 THEN Pieces
  ELSE PieceTexts(n - 1) \cup {t \o p : t \in PieceTexts(n - 1), p \in Pieces}

\* entries reach the Merger through formatChangelogEntry (index.js, line 73)
Entries == {formatChangelogEntry(t, Repo) : t \in PieceTexts(MaxPieces)}

\* CHANGELOG.md as found in the repository: absent or empty, blank, header and
\* one entry, header line without the blank line, no header at all
OldEntry == HeadingMarker \o <<SP>> \o RangeAB \o Bullet
InitDocs ==
  { <<>>,
    <<NL>>,
    Header(Repo) \o OldEntry \o <<NL>>,
    Trim(Header(Repo)) \o <<NL>> \o OldEntry,
    <<"o", "l", "d">> }

MergeStart ==
  /\ doc \in InitDocs
  /\ merges = 0
  /\ lastEntry = <<>>
  /\ lastExisting = <<>>
  /\ lastHasChanges = FALSE

MergeIdle ==
  /\ doc = <<>>
  /\ merges = 0
  /\ lastEntry = <<>>
  /\ lastExisting = <<>>
  /\ lastHasChanges = FALSE

Merge(entry) ==
  /\ merges < MaxMerges
  /\ LET r == updateChangelogFile(entry, Repo, doc)
     IN /\ doc' = r.content
        /\ lastHasChanges' = r.hasChanges
  /\ lastEntry' = entry
  /\ lastExisting' = doc
  /\ merges' = merges + 1
  /\ UNCHANGED otherThanMerge

(***************************************************************************)
(* The Summarizer on its own: the date range of a batch of commits, and    *)
(* the post-processing of a model response.                                *)
(***************************************************************************)
DateLE(a, b) ==
  \/ a.y < b.y
  \/ a.y = b.y /\ a.m < b.m
  \/ a.y = b.y /\ a.m = b.m /\ a.d <= b.d

\* a commit of the hosting API: committed on some day, authored on that day or
\* before it (a rebased or cherry-picked change keeps its author date), or with
\* no author date
RawCommits ==
  {c \in [author : Dates \cup {NoDate}, committer : Dates] :
     c.author = NoDate \/ DateLE(c.author, c.committer)}

SeqsUpTo(S, n) == UNION {[1..k -> S] : k \in 0..n}

\* what listCommits answers: newest first, so committer dates never increase
Batches ==
  {b \in SeqsUpTo(RawCommits, MaxCommits) :
     \A i \in 1..(Len(b) - 1) : DateLE(b[i + 1].committer, b[i].committer)}

\* model responses: nothing, a bare marker or a date-range heading, then any
\* short text of marker characters, line breaks, blanks and letters
ModelTexts ==
  {pre \o body :
     pre \in {<<>>, HeadingMarker, HeadingMarker \o <<SP>> \o RangeBC},
     body \in SeqsUpTo({"#", NL, SP, "x"}, MaxRawLen)}

SumIdle ==
  /\ sumStage = "idle"
  /\ batch = <<>>
  /\ sumRange = <<>>
  /\ modelText = <<>>
  /\ formatted = <<>>

\* generateChangelogWithAI up to the prompt: the guard on an empty batch, then
\* the date range
GenerateRange(rawCommits) ==
  /\ sumStage = "idle"
  /\ batch' = rawCommits
  /\ LET projected == getCommitsForChangelog(rawCommits)
     IN IF Len(projected) = 0
        THEN sumStage' = "threw" /\ sumRange' = <<>>
        ELSE sumStage' = "ranged" /\ sumRange' = dateRange(projected)
  /\ UNCHANGED <<modelText, formatted>>
  /\ UNCHANGED otherThanSum

\* formatChangelogEntry applied to a model response
PostProcess(text) ==
  /\ sumStage = "idle"
  /\ modelText' = text
  /\ formatted' = formatChangelogEntry(text, Repo)
  /\ sumStage' = "formatted"
  /\ UNCHANGED <<batch, sumRange>>
  /\ UNCHANGED otherThanSum

(***************************************************************************)
(* index.js and github-utils.js: run(), one action per awaited call.  An   *)
(* action is the exchange with the hosting API or the model API together   *)
(* with the code that runs until the next await.                           *)
(***************************************************************************)
Runs == {"r1", "r2"}

\* a file of the repository: none, a directory at that path, or a text
NoFile == [type |-> "none", content |-> <<>>]
Directory == [type |-> "dir", content |-> <<>>]
File(content) == [type |-> "file", content |-> content]

\* a revision marker (blob sha) is the identity of the content; null when absent
NullSha == [null |-> TRUE, blob |-> <<>>]
BlobSha(content) == [null |-> FALSE, blob |-> content]

\* the day the run executes (UTC) and the branch name derived from it
RunDays == {[y |-> 2024, m |-> 1, d |-> 8]}
BranchNameOf(day) ==
  <<"changelog/update-", Decimal(day.y) \o Pad2(day.m) \o Pad2(day.d)>>
BranchNames == {BranchNameOf(day) : day \in RunDays}

NoBranch == [exists |-> FALSE, tip |-> 0, file |-> NoFile]
NoName == <<"", <<>>>>
NoOutputs == [set |-> FALSE, pr_number |-> 0, pr_url |-> 0]
TargetBranch == "main"
TargetTip == 0

\* error statuses of the hosting API, per endpoint, and of the model API
ListCommitsErrors == {404, 409, 500}
GetContentErrors == {404, 500}
GetRefErrors == {404, 409, 500}
CreateRefErrors == {409, 500}
PutErrors == {409, 422, 500}
PullsErrors == {422, 500}
ModelErrors == {500}

\* the recent commits of the target branch the pipeline is run on
RunBatches ==
  { <<>>,
    <<[author |-> DayC, committer |-> DayC]>>,
    <<[author |-> DayC, committer |-> DayC], [author |-> DayB, committer |-> DayB]>>,
    <<[author |-> DayB, committer |-> DayB], [author |-> DayA, committer |-> DayA]>> }

\* what the model may answer when asked for an entry headed by range: the
\* entry asked for, the entry without its heading marker, or text without a date
ModelAnswers(range) ==
  { HeadingMarker \o <<SP>> \o range \o <<NL>> \o Bullet \o <<NL>>,
    range \o Bullet,
    <<"n">> }

\* CHANGELOG.md on the target branch when the run starts
TargetFiles ==
  { NoFile,
    Directory,
    File(Header(Repo) \o OldEntry \o <<NL>>),
    File(Header(Repo) \o HeadingMarker \o <<SP>> \o RangeBC \o Bullet) }

\* what run() holds once the changelog is merged
mergeResult == <<existingContent, updatedContent, hasChanges, branchName,
                 repoAtRead>>

\* the repository as a run saw it at its read of CHANGELOG.md; NotRead before
NotRead == [read |-> FALSE, branches |-> {}, pulls |-> {}]
RepoNow ==
  [read |-> TRUE, branches |-> {n \in BranchNames : branches[n].exists},
   pulls |-> pulls]

Request(fn, api, status) == [fn |-> fn, api |-> api, status |-> status]

RunStart ==
  /\ pc = [r \in Runs |-> "start"]
  /\ commits = [r \in Runs |-> <<>>]
  /\ changelogEntry = [r \in Runs |-> <<>>]
  /\ existingContent = [r \in Runs |-> <<>>]
  /\ updatedContent = [r \in Runs |-> <<>>]
  /\ hasChanges = [r \in Runs |-> FALSE]
  /\ branchName = [r \in Runs |-> NoName]
  /\ baseSha = [r \in Runs |-> 0]
  /\ branchSha = [r \in Runs |-> 0]
  /\ sha = [r \in Runs |-> NullSha]
  /\ calls = [r \in Runs |-> <<>>]
  /\ requests = [r \in Runs |-> <<>>]
  /\ failures = [r \in Runs |-> 0]
  /\ outputs = [r \in Runs |-> NoOutputs]
  /\ repoAtRead = [r \in Runs |-> NotRead]

\* the repository before the run: any CHANGELOG.md on the target branch; today's
\* changelog branch absent, or left by an earlier run with or without its
\* pull request
RemoteStart ==
  /\ targetFile \in TargetFiles
  /\ commitLog \in RunBatches
  /\ \E b \in BranchNames :
       \/ /\ branches = [n \in BranchNames |-> NoBranch]
          /\ pulls = {}
       \/ /\ branches = [n \in BranchNames |->
                           IF n = b THEN [exists |-> TRUE, tip |-> TargetTip + 1,
                                          file |-> File(Header(Repo) \o OldEntry)]
                           ELSE NoBranch]
          /\ \/ pulls = {}
             \/ pulls = {[head |-> b, base |-> TargetBranch, number |-> 1]}

RunIdle ==
  /\ RunStart
  /\ targetFile = NoFile
  /\ commitLog = <<>>
  /\ branches = [n \in BranchNames |-> NoBranch]
  /\ pulls = {}

\* the catch block of run(): core.setFailed, and the run is over
Fail(r) ==
  /\ failures' = [failures EXCEPT ![r] = @ + 1]
  /\ pc' = [pc EXCEPT ![r] = "done"]

Log(r, fn, api, status) ==
  requests' = [requests EXCEPT ![r] = Append(@, Request(fn, api, status))]

Call(r, fns) == calls' = [calls EXCEPT ![r] = @ \o fns]

\* run(), lines 23-46: the inputs, the two credential checks, getRepoInfo
run(r) ==
  /\ pc[r] = "start"
  /\ \E githubToken, googleApiKey \in BOOLEAN :
       IF ~githubToken \/ ~googleApiKey
       THEN Fail(r) /\ UNCHANGED calls
       ELSE /\ pc' = [pc EXCEPT ![r] = "listCommits"]
            /\ Call(r, <<"getRepoInfo", "getRecentCommits">>)
            /\ UNCHANGED failures
  /\ UNCHANGED <<commits, changelogEntry, mergeResult, baseSha,
                 branchSha, sha, requests, outputs, remote>>
  /\ UNCHANGED <<mergeVars, sumVars>>

\* getRecentCommits, then run() lines 54-70 up to the model call
getRecentCommits(r) ==
  /\ pc[r] = "listCommits"
  /\ \/ \E status \in ListCommitsErrors :
          /\ Log(r, "getRecentCommits", "repos.listCommits", status)
          /\ Fail(r)
          /\ UNCHANGED <<commits, calls>>
     \/ \E data \in {commitLog} :
          /\ Log(r, "getRecentCommits", "repos.listCommits", 200)
          /\ commits' = [commits EXCEPT ![r] = data]
          /\ IF Len(data) = 0
             THEN /\ pc' = [pc EXCEPT ![r] = "done"]
                  /\ UNCHANGED <<calls, failures>>
             ELSE /\ pc' = [pc EXCEPT ![r] = "generateContent"]
                  /\ Call(r, <<"getCommitsForChangelog", "generateChangelogWithAI">>)
                  /\ UNCHANGED failures
  /\ UNCHANGED <<changelogEntry, mergeResult, baseSha, branchSha,
                 sha, outputs, remote>>
  /\ UNCHANGED <<mergeVars, sumVars>>

\* generateChangelogWithAI from the model call on, then formatChangelogEntry
generateChangelogWithAI(r) ==
  /\ pc[r] = "generateContent"
  /\ \/ \E status \in ModelErrors :
          /\ Log(r, "generateChangelogWithAI", "models.generateContent", status)
          /\ Fail(r)
          /\ UNCHANGED <<changelogEntry, calls>>
     \/ \E text \in ModelAnswers(dateRange(getCommitsForChangelog(commits[r]))) :
          /\ Log(r, "generateChangelogWithAI", "models.generateContent", 200)
          /\ changelogEntry' =
               [changelogEntry EXCEPT ![r] = formatChangelogEntry(Trim(text), Repo)]
          /\ Call(r, <<"formatChangelogEntry", "getFileContent">>)
          /\ pc' = [pc EXCEPT ![r] = "getContent"]
          /\ UNCHANGED failures
  /\ UNCHANGED <<commits, mergeResult, baseSha, branchSha, sha,
                 outputs, remote>>
  /\ UNCHANGED <<mergeVars, sumVars>>

\* run() line 93, "if (!hasChanges)": the run ends without a pull request
skipPullRequest_Never(merged) == FALSE

skipPullRequest(merged) == ~merged.hasChanges

\* run() lines 86-103 once existingContent is known: updateChangelogFile, the
\* early return, the branch name
mergeAndBranch(r, content) ==
  LET merged == updateChangelogFile(changelogEntry[r], Repo, content)
  IN /\ existingContent' = [existingContent EXCEPT ![r] = content]
     /\ updatedContent' = [updatedContent EXCEPT ![r] = merged.content]
     /\ hasChanges' = [hasChanges EXCEPT ![r] = merged.hasChanges]
     /\ repoAtRead' = [repoAtRead EXCEPT ![r] = RepoNow]
     /\ IF skipPullRequest(merged)
        THEN /\ pc' = [pc EXCEPT ![r] = "done"]
             /\ Call(r, <<"updateChangelogFile">>)
             /\ UNCHANGED branchName
        ELSE /\ pc' = [pc EXCEPT ![r] = "getBaseRef"]
             /\ Call(r, <<"updateChangelogFile", "createBranch">>)
             /\ \E day \in RunDays :
                  branchName' = [branchName EXCEPT ![r] = BranchNameOf(day)]
     /\ UNCHANGED failures

\* getFileContent's catch, "if (error.status === 404)": the file does not exist
fileDoesNotExist_Never(status) == FALSE

fileDoesNotExist(status) == status = 404

\* getFileContent on the target branch, then run() lines 84-103
getFileContent(r) ==
  /\ pc[r] = "getContent"
  /\ \/ \E status \in GetContentErrors :
          /\ Log(r, "getFileContent", "repos.getContent", status)
          /\ IF fileDoesNotExist(status)
             THEN mergeAndBranch(r, <<>>)
             ELSE Fail(r) /\ UNCHANGED <<mergeResult, calls>>
     \/ /\ targetFile.type # "none"
        /\ Log(r, "getFileContent", "repos.getContent", 200)
        /\ mergeAndBranch(r, IF targetFile.type = "file" THEN targetFile.content
                             ELSE <<>>)
  /\ UNCHANGED <<commits, changelogEntry, baseSha, branchSha, sha, outputs, remote>>
  /\ UNCHANGED <<mergeVars, sumVars>>

\* createBranch's catch, "if (error.status === 422)": the branch might exist
branchMightExist_409(status) == status = 409

branchMightExist_Never(status) == FALSE

branchMightExist(status) == status = 422

\* createBranch, git.getRef of the base branch
createBranch_getRef(r) ==
  /\ pc[r] = "getBaseRef"
  /\ \/ \E status \in GetRefErrors :
          /\ Log(r, "createBranch", "git.getRef", status)
          /\ IF branchMightExist(status)
             THEN pc' = [pc EXCEPT ![r] = "getExistingRef"] /\ UNCHANGED failures
             ELSE Fail(r)
          /\ UNCHANGED baseSha
     \/ /\ Log(r, "createBranch", "git.getRef", 200)
        /\ baseSha' = [baseSha EXCEPT ![r] = TargetTip]
        /\ pc' = [pc EXCEPT ![r] = "createRef"]
        /\ UNCHANGED failures
  /\ UNCHANGED <<commits, changelogEntry, mergeResult, branchSha,
                 sha, calls, outputs, remote>>
  /\ UNCHANGED <<mergeVars, sumVars>>

\* createBranch, git.createRef, and its catch block up to the second getRef
createBranch_createRef(r) ==
  /\ pc[r] = "createRef"
  /\ \/ \E status \in CreateRefErrors \cup
                        (IF branches[branchName[r]].exists THEN {422} ELSE {}) :
          /\ Log(r, "createBranch", "git.createRef", status)
          /\ IF branchMightExist(status)
             THEN pc' = [pc EXCEPT ![r] = "getExistingRef"] /\ UNCHANGED failures
             ELSE Fail(r)
          /\ UNCHANGED <<branchSha, calls, branches>>
     \/ /\ ~branches[branchName[r]].exists
        /\ Log(r, "createBranch", "git.createRef", 201)
        /\ branches' = [branches EXCEPT ![branchName[r]] =
                          [exists |-> TRUE, tip |-> baseSha[r], file |-> targetFile]]
        /\ branchSha' = [branchSha EXCEPT ![r] = baseSha[r]]
        /\ Call(r, <<"updateOrCreateFile">>)
        /\ pc' = [pc EXCEPT ![r] = "readSha"]
        /\ UNCHANGED failures
  /\ UNCHANGED <<commits, changelogEntry, mergeResult, baseSha,
                 sha, outputs, targetFile, pulls, commitLog>>
  /\ UNCHANGED <<mergeVars, sumVars>>

\* createBranch, the catch block's git.getRef of the existing branch
createBranch_existingRef(r) ==
  /\ pc[r] = "getExistingRef"
  /\ \/ \E status \in GetRefErrors :
          /\ Log(r, "createBranch", "git.getRef", status)
          /\ Fail(r)
          /\ UNCHANGED <<branchSha, calls>>
     \/ /\ branches[branchName[r]].exists
        /\ Log(r, "createBranch", "git.getRef", 200)
        /\ branchSha' = [branchSha EXCEPT ![r] = branches[branchName[r]].tip]
        /\ Call(r, <<"updateOrCreateFile">>)
        /\ pc' = [pc EXCEPT ![r] = "readSha"]
        /\ UNCHANGED failures
  /\ UNCHANGED <<commits, changelogEntry, mergeResult, baseSha,
                 sha, outputs, remote>>
  /\ UNCHANGED <<mergeVars, sumVars>>

\* updateOrCreateFile, the inner try: the file's revision marker on the branch
updateOrCreateFile_getContent(r) ==
  /\ pc[r] = "readSha"
  /\ \/ \E status \in GetContentErrors :
          /\ Log(r, "updateOrCreateFile", "repos.getContent", status)
          /\ sha' = [sha EXCEPT ![r] = NullSha]
     \/ /\ branches[branchName[r]].file.type # "none"
        /\ Log(r, "updateOrCreateFile", "repos.getContent", 200)
        /\ sha' = [sha EXCEPT ![r] =
                     IF branches[branchName[r]].file.type = "file"
                     THEN BlobSha(branches[branchName[r]].file.content)
                     ELSE NullSha]
  /\ pc' = [pc EXCEPT ![r] = "putFile"]
  /\ UNCHANGED <<commits, changelogEntry, mergeResult, baseSha,
                 branchSha, calls, failures, outputs, remote>>
  /\ UNCHANGED <<mergeVars, sumVars>>

\* the write is accepted when the marker sent is the marker of the file there
PutAccepted(file, marker) ==
  \/ file.type = "none" /\ marker.null
  \/ file.type = "file" /\ marker = BlobSha(file.content)

\* updateOrCreateFile's outer catch: core.error, then the error is thrown on
\* to run()'s catch; without the throw run() would go on to createPR
updateOrCreateFile_catch_NoThrow(r) ==
  /\ pc' = [pc EXCEPT ![r] = "createPR"]
  /\ calls' = [calls EXCEPT ![r] = @ \o <<"createPR">>]
  /\ UNCHANGED failures

updateOrCreateFile_catch(r) == Fail(r) /\ UNCHANGED calls

\* updateOrCreateFile, repos.createOrUpdateFileContents
updateOrCreateFile_put(r) ==
  /\ pc[r] = "putFile"
  /\ \/ \E status \in PutErrors :
          /\ Log(r, "updateOrCreateFile", "repos.createOrUpdateFileContents", status)
          /\ updateOrCreateFile_catch(r)
          /\ UNCHANGED branches
     \/ /\ PutAccepted(branches[branchName[r]].file, sha[r])
        /\ Log(r, "updateOrCreateFile", "repos.createOrUpdateFileContents", 200)
        /\ branches' = [branches EXCEPT ![branchName[r]] =
                          [@ EXCEPT !.tip = @ + 1, !.file = File(updatedContent[r])]]
        /\ Call(r, <<"createPR">>)
        /\ pc' = [pc EXCEPT ![r] = "createPR"]
        /\ UNCHANGED failures
  /\ UNCHANGED <<commits, changelogEntry, mergeResult, baseSha,
                 branchSha, sha, outputs, targetFile, pulls, commitLog>>
  /\ UNCHANGED <<mergeVars, sumVars>>

\* createPR, then run() lines 139-141
createPR(r) ==
  /\ pc[r] = "createPR"
  /\ \/ \E status \in PullsErrors :
          /\ Log(r, "createPR", "pulls.create", status)
          /\ Fail(r)
          /\ UNCHANGED <<outputs, pulls>>
     \/ /\ ~\E p \in pulls : p.head = branchName[r] /\ p.base = TargetBranch
        /\ Log(r, "createPR", "pulls.create", 201)
        /\ LET number == Cardinality(pulls) + 1
           IN /\ pulls' = pulls \cup {[head |-> branchName[r], base |-> TargetBranch,
                                       number |-> number]}
              /\ outputs' = [outputs EXCEPT ![r] =
                               [set |-> TRUE, pr_number |-> number, pr_url |-> number]]
        /\ pc' = [pc EXCEPT ![r] = "done"]
        /\ UNCHANGED failures
  /\ UNCHANGED <<commits, changelogEntry, mergeResult, baseSha,
                 branchSha, sha, calls, targetFile, branches, commitLog>>
  /\ UNCHANGED <<mergeVars, sumVars>>

\* one run of the pipeline against the repository
Solo == {"r1"}

Init == RunStart /\ RemoteStart /\ MergeIdle /\ SumIdle

Next ==
  \/ \E r \in Solo : run(r)
  \/ \E r \in Solo : getRecentCommits(r)
  \/ \E r \in Solo : generateChangelogWithAI(r)
  \/ \E r \in Solo : getFileContent(r)
  \/ \E r \in Solo : createBranch_getRef(r)
  \/ \E r \in Solo : createBranch_createRef(r)
  \/ \E r \in Solo : createBranch_existingRef(r)
  \/ \E r \in Solo : updateOrCreateFile_getContent(r)
  \/ \E r \in Solo : updateOrCreateFile_put(r)
  \/ \E r \in Solo : createPR(r)

Spec == Init /\ [][Next]_vars

MergeInit == MergeStart /\ SumIdle /\ RunIdle

MergeNext == \E entry \in Entries : Merge(entry)

MergeSpec == MergeInit /\ [][MergeNext]_vars

SumInit == SumIdle /\ MergeIdle /\ RunIdle

SumNext ==
  \/ \E rawCommits \in Batches : GenerateRange(rawCommits)
  \/ \E text \in ModelTexts : PostProcess(text)

SumSpec == SumInit /\ [][SumNext]_vars

\* two runs of the pipeline against the same repository and target branch, for
\* instance two workflow triggers close together: each run is its own process,
\* and the hosting API takes their requests in any order
\* CHANGELOG.md on the target branch when the two runs start: absent, with an
\* entry of an earlier week, or with the entry of this week already
RaceFiles ==
  { NoFile,
    File(Header(Repo) \o OldEntry \o <<NL>>),
    File(Header(Repo) \o HeadingMarker \o <<SP>> \o RangeBC \o Bullet) }

\* the commits both runs are about: the week 01.01.2024 - 07.01.2024
RaceBatches ==
  {<<[author |-> DayC, committer |-> DayC], [author |-> DayB, committer |-> DayB]>>}

\* no changelog branch of today and no pull request yet: whatever is published
\* in the race is published by one of the two runs
RaceInit ==
  /\ RunStart /\ MergeIdle /\ SumIdle
  /\ targetFile \in RaceFiles
  /\ commitLog \in RaceBatches
  /\ branches = [n \in BranchNames |-> NoBranch]
  /\ pulls = {}

RaceNext ==
  \/ \E r \in Runs : run(r)
  \/ \E r \in Runs : getRecentCommits(r)
  \/ \E r \in Runs : generateChangelogWithAI(r)
  \/ \E r \in Runs : getFileContent(r)
  \/ \E r \in Runs : createBranch_getRef(r)
  \/ \E r \in Runs : createBranch_createRef(r)
  \/ \E r \in Runs : createBranch_existingRef(r)
  \/ \E r \in Runs : updateOrCreateFile_getContent(r)
  \/ \E r \in Runs : updateOrCreateFile_put(r)
  \/ \E r \in Runs : createPR(r)

RaceSpec == RaceInit /\ [][RaceNext]_vars

(***************************************************************************)
(* Vocabulary of the properties.                                           *)
(***************************************************************************)
\* the line of s that starts at 1-based position i
LineFrom(s, i) ==
  LET e == CHOOSE j \in (i - 1)..Len(s) :
             /\ \A k \in i..j : s[k] # NL
             /\ (j = Len(s) \/ s[j + 1] = NL)
  IN SubSeq(s, i, e)

\* positions where a line of s starts with the heading marker
HeadingStarts(s) ==
  {i \in 1..Len(s) : (i = 1 \/ s[i - 1] = NL) /\ OccursAt(s, HeadingMarker, i - 1)}

NoDuplicateHeading(s) ==
  \A i, j \in HeadingStarts(s) : i # j => LineFrom(s, i) # LineFrom(s, j)

\* a heading line of the form "### DD.MM.YYYY - DD.MM.YYYY"
IsDateRangeHeading(h) ==
  \E a, b \in Dates :
    h = HeadingMarker \o <<SP>> \o toLocaleDateString(a) \o <<SP, "-", SP>>
          \o toLocaleDateString(b)

HeaderLine == <<"#", "#", SP>> \o Repo
                \o <<SP, "-", SP, "C", "h", "a", "n", "g", "e", "l", "o", "g">>
BlankLine == <<NL, NL>>

Occurrences(s, t) == Cardinality({k \in 0..Len(s) : OccursAt(s, t, k)})

\* the entry's date range is absent from the document (or the entry has none)
RangeAbsent(entry, document) ==
  \A m \in {DateRangeMatch(entry)} : m = <<>> \/ ~Includes(document, m[1])

\* the text after the first occurrence of t in s
After(s, t) ==
  LET k == CHOOSE i \in 0..Len(s) :
             OccursAt(s, t, i) /\ \A j \in 0..(i - 1) : ~OccursAt(s, t, j)
  IN SubSeq(s, k + Len(t) + 1, Len(s))

\* s without the line breaks of one blank line at its start
DropBlankLine(s) ==
  IF StartsWith(s, BlankLine) THEN SubSeq(s, 3, Len(s))
  ELSE IF StartsWith(s, <<NL>>) THEN SubSeq(s, 2, Len(s))
  ELSE s

BatchDates == {getCommitsForChangelog(batch)[i].date : i \in 1..Len(batch)}
OldestDate == CHOOSE a \in BatchDates : \A b \in BatchDates : DateLE(a, b)
NewestDate == CHOOSE a \in BatchDates : \A b \in BatchDates : DateLE(b, a)

C3_MergerIdempotent ==
  (merges >= 1 /\ IsDateRangeHeading(LineFrom(lastEntry, 1)))
    => /\ Includes(lastExisting, LineFrom(lastEntry, 1))
            => (doc = lastExisting /\ ~lastHasChanges)
       /\ updateChangelogFile(lastEntry, Repo, doc)
            = [content |-> doc, hasChanges |-> FALSE]

\* the second of two merges found the heading of its entry in the document
C3_Witness ==
  /\ merges = 2
  /\ IsDateRangeHeading(LineFrom(lastEntry, 1))
  /\ Includes(lastExisting, LineFrom(lastEntry, 1))
  /\ Len(lastEntry) > Len(LineFrom(lastEntry, 1))
  /\ ~lastHasChanges

\* C4 as stated: with the header line in the document and the date range absent,
\* the result is the header, the entry, a blank line and what followed the
\* header line, under a single header.
C4_InsertAfterHeaderLine ==
  (merges >= 1 /\ Includes(lastExisting, HeaderLine)
     /\ RangeAbsent(lastEntry, lastExisting))
    => /\ doc = Header(Repo) \o lastEntry \o BlankLine
                  \o DropBlankLine(After(lastExisting, HeaderLine))
       /\ Occurrences(doc, HeaderLine) = 1

\* C4 amended: with the header line followed by a blank line in the document and
\* the date range absent, the result is the header, the entry, a blank line and
\* exactly what followed the first such header; a document with one header line
\* and an entry without one give a result with one header line.
C4_InsertAfterExactHeader ==
  (merges >= 1 /\ Includes(lastExisting, HeaderLine \o BlankLine)
     /\ RangeAbsent(lastEntry, lastExisting))
    => /\ doc = HeaderLine \o BlankLine \o lastEntry \o BlankLine
                  \o After(lastExisting, HeaderLine \o BlankLine)
       /\ lastHasChanges
       /\ (Occurrences(lastExisting, HeaderLine) = 1 /\ ~Includes(lastEntry, HeaderLine))
            => Occurrences(doc, HeaderLine) = 1

\* an entry was put between the header and an older entry
C4_Witness ==
  /\ merges >= 1
  /\ Includes(lastExisting, HeaderLine \o BlankLine)
  /\ RangeAbsent(lastEntry, lastExisting)
  /\ DateRangeMatch(lastEntry) # <<>>
  /\ Includes(After(lastExisting, HeaderLine \o BlankLine), HeadingMarker)
  /\ doc # lastExisting

\* C5 as stated: with the date range absent and a document that is empty or lacks
\* the header line followed by a blank line, the result is header + newEntry.
C5_FreshWithoutExactHeader ==
  (merges >= 1 /\ RangeAbsent(lastEntry, lastExisting)
     /\ (lastExisting = <<>> \/ ~Includes(lastExisting, HeaderLine \o BlankLine)))
    => (doc = HeaderLine \o BlankLine \o lastEntry /\ lastHasChanges)

\* C5 amended: with the date range absent and a document that is blank or lacks
\* the header line, the result is header + newEntry; every insertion reports
\* hasChanges = TRUE.
C5_FreshWithoutHeaderLine ==
  /\ (merges >= 1 /\ RangeAbsent(lastEntry, lastExisting)
        /\ (Trim(lastExisting) = <<>> \/ ~Includes(lastExisting, HeaderLine)))
       => doc = HeaderLine \o BlankLine \o lastEntry
  /\ (merges >= 1 /\ RangeAbsent(lastEntry, lastExisting)) => lastHasChanges

\* prior content without a header line was discarded
C5_Witness ==
  /\ merges >= 1
  /\ RangeAbsent(lastEntry, lastExisting)
  /\ Trim(lastExisting) # <<>>
  /\ ~Includes(lastExisting, HeaderLine)
  /\ doc = HeaderLine \o BlankLine \o lastEntry
  /\ lastHasChanges

(***************************************************************************)
(* The Summarizer.                                                         *)
(***************************************************************************)
\* C9: the date range of a non-empty batch is the date of its oldest commit, a
\* dash, the date of its newest commit, wherever those commits stand.
C9_RangeOldestToNewest ==
  sumStage = "ranged"
    => sumRange = toLocaleDateString(OldestDate) \o <<SP, "-", SP>>
                    \o toLocaleDateString(NewestDate)

\* C10 as stated: formatChangelogEntry applied to its own result returns it
\* unchanged, for every input text.
C10_FormatIdempotent ==
  sumStage = "formatted" => formatChangelogEntry(formatted, Repo) = formatted

\* C10 amended: formatChangelogEntry applied to its own result returns it
\* unchanged, for every input text that has a character other than white space.
C10_FormatIdempotentNonBlank ==
  (sumStage = "formatted" /\ Trim(modelText) # <<>>)
    => formatChangelogEntry(formatted, Repo) = formatted

\* a response that got the marker prepended and a run of line breaks collapsed
C10_Witness ==
  /\ sumStage = "formatted"
  /\ ~StartsWith(Trim(modelText), HeadingMarker)
  /\ Includes(Trim(modelText), <<NL, NL, NL>>)
  /\ StartsWith(formatted, HeadingMarker)
  /\ ~Includes(formatted, <<NL, NL, NL>>)

(***************************************************************************)
(* The pipeline.                                                           *)
(***************************************************************************)
Last(q) == q[Len(q)]
Called(r, fn) == \E i \in 1..Len(calls[r]) : calls[r][i] = fn
Requested(r, api) == \E i \in 1..Len(requests[r]) : requests[r][i].api = api
Answered(r, api, status) ==
  \E i \in 1..Len(requests[r]) :
    requests[r][i].api = api /\ requests[r][i].status = status
IsError(q) == q.status >= 400
PublisherFns == {"createBranch", "updateOrCreateFile", "createPR"}

\* getRecentCommits returned an empty sequence to run r
ZeroCommits(r) ==
  /\ Len(requests[r]) >= 1
  /\ requests[r][1] = Request("getRecentCommits", "repos.listCommits", 200)
  /\ commits[r] = <<>>

\* updateChangelogFile returned hasChanges = FALSE to run r
NoChanges(r) == Called(r, "updateChangelogFile") /\ ~hasChanges[r]

\* C1: a run that found no commits, or whose merge reported no changes, is over
\* without a failure signal and without createBranch, updateOrCreateFile or
\* createPR; with no commits it also called neither the Summarizer nor the Merger.
C1_BenignEarlyExit ==
  \A r \in Runs :
    /\ (ZeroCommits(r) \/ NoChanges(r))
         => /\ pc[r] = "done"
            /\ failures[r] = 0
            /\ ~outputs[r].set
            /\ \A fn \in PublisherFns : ~Called(r, fn)
            /\ \A i \in 1..Len(requests[r]) : requests[r][i].fn \notin PublisherFns
    /\ ZeroCommits(r)
         => /\ Len(requests[r]) = 1
            /\ \A fn \in {"generateChangelogWithAI", "formatChangelogEntry",
                          "getFileContent", "updateChangelogFile"} : ~Called(r, fn)

\* a run ended because the entry's date range was already in CHANGELOG.md
C1_Witness ==
  \E r \in Runs :
    /\ NoChanges(r)
    /\ pc[r] = "done"
    /\ Last(requests[r]) = Request("getFileContent", "repos.getContent", 200)
    /\ updatedContent[r] = existingContent[r]
    /\ existingContent[r] # <<>>

\* createBranch of run r failed: the error went to run()'s catch
CreateBranchFailed(r) ==
  failures[r] = 1 /\ Len(requests[r]) >= 1 /\ Last(requests[r]).fn = "createBranch"

\* C6 as stated: when git.createRef is answered 409 or 422, createBranch does
\* not fail and the run goes on to the file write and the pull request.
C6_ConflictTolerated ==
  \A r \in Runs :
    (Answered(r, "git.createRef", 409) \/ Answered(r, "git.createRef", 422))
      => /\ ~CreateBranchFailed(r)
         /\ pc[r] = "done" => /\ Requested(r, "repos.createOrUpdateFileContents")
                              /\ Requested(r, "pulls.create")

\* C6 amended: a 422 from git.createRef does not fail createBranch there: the
\* branch is looked up, and when the lookup succeeds createBranch returns the
\* branch's tip and the run goes on to updateOrCreateFile; when the lookup fails
\* the run fails.  A 409 from git.createRef fails the run at once.
C6_ExistsTolerated ==
  \A r \in Runs : \A i \in 1..Len(requests[r]) :
    LET q == requests[r][i]
        n == Len(requests[r])
    IN q.api = "git.createRef" =>
         /\ q.status = 422 =>
              /\ i = n => (pc[r] = "getExistingRef" /\ failures[r] = 0)
              /\ i < n =>
                   /\ requests[r][i + 1].fn = "createBranch"
                   /\ requests[r][i + 1].api = "git.getRef"
                   /\ requests[r][i + 1].status = 200
                        => /\ Called(r, "updateOrCreateFile")
                           /\ i + 1 = n =>
                                /\ pc[r] = "readSha"
                                /\ failures[r] = 0
                                /\ branchSha[r] = branches[branchName[r]].tip
                           /\ i + 1 < n => requests[r][i + 2].fn = "updateOrCreateFile"
                   /\ requests[r][i + 1].status # 200
                        => (i + 1 = n /\ CreateBranchFailed(r) /\ pc[r] = "done")
         /\ q.status = 409 =>
              /\ i = n
              /\ CreateBranchFailed(r)
              /\ pc[r] = "done"
              /\ ~Called(r, "updateOrCreateFile")

\* a run reused an existing branch and opened its pull request
C6_Witness ==
  \E r \in Runs :
    /\ Answered(r, "git.createRef", 422)
    /\ Answered(r, "repos.createOrUpdateFileContents", 200)
    /\ outputs[r].set
    /\ pc[r] = "done"

\* the errors the claim names as tolerated: a 404 reading CHANGELOG.md from the
\* target branch, the branch-exists answer to git.createRef
ToleratedAsStated(q) ==
  \/ q.fn = "getFileContent" /\ q.status = 404
  \/ q.api = "git.createRef" /\ q.status = 422

\* the errors the code tolerates: those, a 422 to the base-branch lookup of
\* createBranch, and any error reading the revision marker in updateOrCreateFile
ToleratedByCode(r, i) ==
  LET q == requests[r][i]
  IN \/ ToleratedAsStated(q)
     \/ /\ q.fn = "createBranch" /\ q.api = "git.getRef" /\ q.status = 422
        /\ (i = 1 \/ requests[r][i - 1].fn # "createBranch")
     \/ q.fn = "updateOrCreateFile" /\ q.api = "repos.getContent"

\* the error answered to request i of run r ended the run with the failure signal
EndedRun(r, i) ==
  /\ i = Len(requests[r])
  /\ pc[r] = "done"
  /\ failures[r] = 1
  /\ ~outputs[r].set

\* C7 as stated: every error answered by the hosting API or the model API ends
\* the run with the failure signal, except a 404 reading CHANGELOG.md and the
\* branch-exists conflict; no other error is swallowed.
C7_TwoToleratedErrors ==
  \A r \in Runs : \A i \in 1..Len(requests[r]) :
    (IsError(requests[r][i]) /\ ~ToleratedAsStated(requests[r][i])) => EndedRun(r, i)

\* C7 amended: every error ends the run with the failure signal except three
\* tolerated ones, which do not fail the run: a 404 reading CHANGELOG.md (the
\* document is then empty), a 422 in createBranch's try block, and any error
\* reading the file's revision marker in updateOrCreateFile (the marker is null).
C7_ThreeToleratedErrors ==
  \A r \in Runs : \A i \in 1..Len(requests[r]) :
    LET q == requests[r][i]
    IN IsError(q) =>
         IF ToleratedByCode(r, i)
         THEN /\ i = Len(requests[r]) => (failures[r] = 0 /\ pc[r] # "done")
              /\ q.fn = "getFileContent" => existingContent[r] = <<>>
              /\ (q.fn = "updateOrCreateFile" /\ i = Len(requests[r]))
                   => sha[r] = NullSha
         ELSE EndedRun(r, i)

\* a run got through a missing CHANGELOG.md and a failed marker read to its
\* pull request
C7_Witness ==
  \E r \in Runs :
    /\ Answered(r, "repos.getContent", 404)
    /\ \E i \in 1..Len(requests[r]) :
         requests[r][i] = Request("updateOrCreateFile", "repos.getContent", 500)
    /\ outputs[r].set
    /\ failures[r] = 0

\* a Publisher step failed at request i of run r
StepFailed(r, i) ==
  /\ requests[r][i].fn \in PublisherFns
  /\ IsError(requests[r][i])
  /\ ~ToleratedByCode(r, i)

Rank(fn) == CASE fn = "createBranch" -> 1
              [] fn = "updateOrCreateFile" -> 2
              [] fn = "createPR" -> 3
              [] OTHER -> 0

\* C8: the Publisher's steps run in the order createBranch, updateOrCreateFile,
\* createPR; a failed step is the run's last request, so no file write follows a
\* failed branch creation and no pull request or output follows a failed file
\* write; the failure signal is raised once; nothing is undone: a branch the run
\* created and a file it wrote are still there when the run is over.
C8_PublisherHaltsOnFailure ==
  \A r \in Runs :
    /\ \A i, j \in 1..Len(requests[r]) :
         i < j => Rank(requests[r][i].fn) <= Rank(requests[r][j].fn)
    /\ \A i \in 1..Len(requests[r]) :
         LET fn == requests[r][i].fn
         IN StepFailed(r, i) =>
              /\ EndedRun(r, i)
              /\ \A later \in PublisherFns : Rank(later) > Rank(fn) => ~Called(r, later)
              /\ fn = "updateOrCreateFile" => ~Requested(r, "pulls.create")
    /\ failures[r] <= 1
    /\ failures[r] = 1 => (pc[r] = "done" /\ ~outputs[r].set)
    /\ outputs[r].set => Answered(r, "pulls.create", 201)
    /\ Answered(r, "git.createRef", 201) => branches[branchName[r]].exists
    /\ Answered(r, "repos.createOrUpdateFileContents", 200)
         => branches[branchName[r]].file = File(updatedContent[r])

\* the pull request failed after the run had created the branch and written the
\* file, and both are still there
C8_Witness ==
  \E r \in Runs :
    /\ failures[r] = 1
    /\ Requested(r, "pulls.create")
    /\ IsError(Last(requests[r]))
    /\ Answered(r, "git.createRef", 201)
    /\ Answered(r, "repos.createOrUpdateFileContents", 200)
    /\ branches[branchName[r]].file = File(updatedContent[r])

(***************************************************************************)
(* Two concurrent runs.                                                    *)
(***************************************************************************)
\* nothing had been published when the snapshot was taken
Unpublished(snapshot) ==
  snapshot.read /\ snapshot.branches = {} /\ snapshot.pulls = {}

\* CHANGELOG.md of the target branch as getFileContent may return it
TargetContents ==
  {<<>>} \cup (IF targetFile.type = "file" THEN {targetFile.content} ELSE {})

\* C11: nothing serializes two runs against the same repository and target
\* branch.  What a run merges into is the target branch's CHANGELOG.md, which no
\* run's publishing changes, so its hasChanges is decided by its own entry and
\* that file alone, whatever the other run had published when it read; when
\* TRUE it takes the run to createBranch; and finding the branch already created
\* (422) does not stop the run, it goes on to look the branch up and reuse it.
C11_RunsNotSerialized ==
  \A r \in Runs :
    /\ Called(r, "updateChangelogFile")
         => /\ repoAtRead[r].read
            /\ existingContent[r] \in TargetContents
            /\ hasChanges[r] = updateChangelogFile(changelogEntry[r], Repo,
                                                   existingContent[r]).hasChanges
            /\ hasChanges[r] => Called(r, "createBranch")
    /\ (/\ Len(requests[r]) >= 1
        /\ Last(requests[r]) = Request("createBranch", "git.createRef", 422))
         => (failures[r] = 0 /\ pc[r] = "getExistingRef")

\* the race: both runs read CHANGELOG.md while nothing was published, both got
\* the same entry whose date range the file does not have, both decided
\* hasChanges = TRUE, and both went through branch creation, an accepted file
\* write and the pull-request call for that entry on the same branch
C11_Witness ==
  /\ \A r \in Runs :
       /\ Unpublished(repoAtRead[r])
       /\ hasChanges[r]
       /\ DateRangeMatch(changelogEntry[r]) # <<>>
       /\ ~Includes(existingContent[r], DateRangeMatch(changelogEntry[r])[1])
       /\ Requested(r, "git.createRef")
       /\ Answered(r, "repos.createOrUpdateFileContents", 200)
       /\ Requested(r, "pulls.create")
  /\ changelogEntry["r1"] = changelogEntry["r2"]
  /\ existingContent["r1"] = existingContent["r2"]
  /\ branchName["r1"] = branchName["r2"]
====
